---- MODULE Spec2Model ----
(***************************************************************************)
(* A model of queue.c: a singly linked queue of strings with head and tail *)
(* insertion, head removal, in-place reversal and in-place merge sort.     *)
(*                                                                         *)
(* The heap is a bounded set of node addresses; each node has a value (a   *)
(* string, modelled as a sequence of non-zero bytes) and a next pointer.   *)
(* Every public function of queue.c is one action that runs the whole      *)
(* function; loops and recursion are RECURSIVE operators over the heap.    *)
(***************************************************************************)
EXTENDS Integers, Sequences, FiniteSets, TLC

\* ------------------------------------------------------------------ bounds
\* Number of node addresses malloc can hand out.
MaxNodes == 5
\* Longest queue the harness builds by single insertions.
MaxSize == 3
\* Largest output-buffer capacity passed to q_remove_head.
MaxBuf == 3
\* Width of size_t, scaled down: bufsize - 1 is computed modulo 2^SizeBits.
SizeBits == 3

\* --------------------------------------------------------------- constants
NULL == 0
\* The address of the one queue_t the harness works on.
QPTR == 1
\* The address of merge's stack-allocated dummy element.
LEAD == -1

Nodes == 1..MaxNodes

\* The strings the harness feeds: "", "ab", "aba", "b" as byte sequences.
Strings == {<<>>, <<1, 2>>, <<1, 2, 1>>, <<2>>}

\* A char* argument: the empty tuple is the NULL pointer, <<s>> points to s.
NullStr == <<>>
StrPtrs == {NullStr} \cup {<<s>> : s \in Strings}

SizeMod == 2 ^ SizeBits
\* Stack frames merge_sort may use: one for each node of the largest range.
MaxFrames == MaxNodes

VARIABLES
    q,          \* the harness's queue_t *: NULL or QPTR
    head,       \* q->head
    tail,       \* q->tail
    size,       \* q->size
    value,      \* value[n]: the string owned by node n
    next,       \* next[n]: n->next
    allocated,  \* the nodes malloc'ed and not yet freed
    lastOp,     \* the last call: its name, return value, failure path, buffer
    running,    \* FALSE once the process has been killed by a wild write
    eng         \* the ranges r1, r2, rr of a call of merge inside q_sort

vars == <<q, head, tail, size, value, next, allocated, lastOp, running, eng>>

\* ------------------------------------------------------------------ helpers
Min(S) == CHOOSE x \in S : \A y \in S : x <= y

\* The nodes reached by following nx from h, in order (at most MaxNodes steps
\* are followed, so a cyclic chain gives a sequence longer than any list).
RECURSIVE ChainN(_, _, _)
ChainN(nx, h, fuel) ==
    IF h = NULL \/ fuel = 0 THEN <<>>
    ELSE <<h>> \o ChainN(nx, nx[h], fuel - 1)

Chain(nx, h) == ChainN(nx, h, MaxNodes + 1)

Range(s) == {s[i] : i \in 1..Len(s)}

\* The values of the nodes reached by following nx from h, in order.
RECURSIVE ValuesN(_, _, _, _)
ValuesN(val, nx, h, fuel) ==
    IF h = NULL \/ fuel = 0 THEN <<>>
    ELSE <<val[h]>> \o ValuesN(val, nx, nx[h], fuel - 1)

Values(val, nx, h) == ValuesN(val, nx, h, MaxNodes + 1)

\* strcmp: the sign of the first differing byte, the terminator being 0.
RECURSIVE strcmp(_, _)
strcmp(a, b) ==
    IF a = <<>> /\ b = <<>> THEN 0
    ELSE IF a = <<>> THEN 0 - Head(b)
    ELSE IF b = <<>> THEN Head(a)
    ELSE IF Head(a) # Head(b) THEN Head(a) - Head(b)
    ELSE strcmp(Tail(a), Tail(b))

\* What a call leaves in lastOp: its name, its return value (num when it is
\* a number), the path it returned by, its string argument, the bytes stored
\* in the output buffer and the buffer's capacity.
Call(op, ret, err, out, cap) ==
    [op |-> op, ret |-> ret, num |-> 0, err |-> err, arg |-> NullStr,
     out |-> out, cap |-> cap]

CallArg(op, ret, err, s) ==
    [op |-> op, ret |-> ret, num |-> 0, err |-> err, arg |-> s,
     out |-> <<>>, cap |-> 0]

CallNum(op, n) ==
    [op |-> op, ret |-> TRUE, num |-> n, err |-> "none", arg |-> NullStr,
     out |-> <<>>, cap |-> 0]

NoRange == [head |-> NULL, tail |-> NULL]
NoEngine == [r1 |-> NoRange, r2 |-> NoRange, rr |-> NoRange]

\* malloc of a node: the lowest free address, NULL when the heap is exhausted
\* or the allocation is made to fail.
malloc(alloc, fail) ==
    IF fail \/ Nodes \ alloc = {} THEN NULL ELSE Min(Nodes \ alloc)

\* new_element with `new_ele->next = next` lost: the new node points nowhere.
new_element_nolink(val, nx, alloc, s, nxt, fault) ==
    LET new_ele == malloc(alloc, fault = "node") IN
    IF s = NullStr \/ new_ele = NULL \/ fault = "str" THEN
        [ele |-> NULL, err |-> IF s = NullStr THEN "s_null" ELSE fault,
         value |-> val, next |-> nx, allocated |-> alloc]
    ELSE
        [ele |-> new_ele, err |-> "none",
         value |-> [val EXCEPT ![new_ele] = s[1]],
         next |-> [nx EXCEPT ![new_ele] = NULL],
         allocated |-> alloc \cup {new_ele}]

\* new_element without the free(new_ele) after a failed strdup.
new_element_leak(val, nx, alloc, s, nxt, fault) ==
    LET new_ele == malloc(alloc, fault = "node") IN
    IF s = NullStr \/ new_ele = NULL THEN
        [ele |-> NULL, err |-> IF s = NullStr THEN "s_null" ELSE "node",
         value |-> val, next |-> nx, allocated |-> alloc]
    ELSE IF fault = "str" THEN
        [ele |-> NULL, err |-> "str", value |-> val, next |-> nx,
         allocated |-> alloc \cup {new_ele}]
    ELSE
        [ele |-> new_ele, err |-> "none",
         value |-> [val EXCEPT ![new_ele] = s[1]],
         next |-> [nx EXCEPT ![new_ele] = nxt],
         allocated |-> alloc \cup {new_ele}]

\* new_element(s, nxt) on heap (val, nx, alloc); fault names the allocation
\* that fails: "none", "node" (malloc) or "str" (strdup).
new_element(val, nx, alloc, s, nxt, fault) ==
    LET new_ele == malloc(alloc, fault = "node") IN
    IF s = NullStr THEN
        [ele |-> NULL, err |-> "s_null", value |-> val, next |-> nx, allocated |-> alloc]
    ELSE IF new_ele = NULL THEN
        [ele |-> NULL, err |-> "node", value |-> val, next |-> nx, allocated |-> alloc]
    ELSE IF fault = "str" THEN
        \* strdup failed: free(new_ele)
        [ele |-> NULL, err |-> "str", value |-> val, next |-> nx,
         allocated |-> (alloc \cup {new_ele}) \ {new_ele}]
    ELSE
        [ele |-> new_ele, err |-> "none",
         value |-> [val EXCEPT ![new_ele] = s[1]],
         next |-> [nx EXCEPT ![new_ele] = nxt],
         allocated |-> alloc \cup {new_ele}]

q_size == IF q # NULL THEN size ELSE 0

Faults == {"none", "node", "str"}

\* ------------------------------------------------------------------ actions
Init ==
    /\ q \in {NULL, QPTR}
    /\ head = NULL
    /\ tail = NULL
    /\ size = 0
    /\ value = [n \in Nodes |-> <<>>]
    /\ next = [n \in Nodes |-> NULL]
    /\ allocated = {}
    /\ lastOp = Call("q_new", q # NULL, IF q # NULL THEN "none" ELSE "node", <<>>, 0)
    /\ running = TRUE
    /\ eng = NoEngine

\* q_insert_head's effect on the queue, shared with q_insert_tail's call of it.
insert_head(op, s, fault) ==
    IF q = NULL THEN
        /\ lastOp' = CallArg(op, FALSE, "q_null", s)
        /\ UNCHANGED <<q, head, tail, size, value, next, allocated>>
    ELSE
        LET r == new_element(value, next, allocated, s, head, fault) IN
        IF r.ele = NULL THEN
            /\ value' = r.value
            /\ next' = r.next
            /\ allocated' = r.allocated
            /\ lastOp' = CallArg(op, FALSE, r.err, s)
            /\ UNCHANGED <<q, head, tail, size>>
        ELSE
            /\ tail' = IF 0 = size THEN r.ele ELSE tail
            /\ head' = r.ele
            /\ size' = size + 1
            /\ value' = r.value
            /\ next' = r.next
            /\ allocated' = r.allocated
            /\ lastOp' = CallArg(op, TRUE, "none", s)
            /\ UNCHANGED q

\* q_insert_head(q, s); the harness stops inserting at MaxSize elements.
q_insert_head(s, fault) ==
    /\ running
    /\ q_size < MaxSize
    /\ insert_head("q_insert_head", s, fault)
    /\ UNCHANGED <<running, eng>>

\* q_insert_tail: the failing new_element still stores NULL in q->tail->next.
q_insert_tail(s, fault) ==
    /\ running
    /\ q_size < MaxSize
    /\ IF q = NULL THEN
           /\ lastOp' = CallArg("q_insert_tail", FALSE, "q_null", s)
           /\ UNCHANGED <<q, head, tail, size, value, next, allocated>>
       ELSE IF 0 = size THEN
           insert_head("q_insert_tail", s, fault)
       ELSE
           LET r == new_element(value, next, allocated, s, NULL, fault)
               nx == [r.next EXCEPT ![tail] = r.ele]
           IN  IF r.ele = NULL THEN
                   /\ next' = nx
                   /\ value' = r.value
                   /\ allocated' = r.allocated
                   /\ lastOp' = CallArg("q_insert_tail", FALSE, r.err, s)
                   /\ UNCHANGED <<q, head, tail, size>>
               ELSE
                   /\ next' = nx
                   /\ tail' = nx[tail]
                   /\ size' = size + 1
                   /\ value' = r.value
                   /\ allocated' = r.allocated
                   /\ lastOp' = CallArg("q_insert_tail", TRUE, "none", s)
                   /\ UNCHANGED <<q, head>>
    /\ UNCHANGED <<running, eng>>

\* strncpy(sp, src, n): min(n, strlen) bytes of src, then zeros up to n bytes.
strncpy(src, n) == [i \in 1..n |-> IF i <= Len(src) THEN src[i] ELSE 0]

\* The bytes q_remove_head stores at sp[0], sp[1], ...: strncpy of
\* bufsize - 1 bytes (size_t arithmetic), then the terminator at sp[bufsize - 1].
copy_out(src, bufsize) ==
    LET n == (bufsize - 1) % SizeMod IN strncpy(src, n) \o <<0>>

\* del_element(e): frees e and its string; the caller gets e->next.
del_value(val, e) == [val EXCEPT ![e] = <<>>]
del_next(nx, e) == [nx EXCEPT ![e] = NULL]

\* q_remove_head without `q->size--`.
remove_head_no_dec(nx, h, t, sz) ==
    [head |-> nx[h], size |-> sz, tail |-> IF 1 >= sz - 1 THEN nx[h] ELSE t]

\* q_remove_head without the resynchronisation of tail.
remove_head_no_resync(nx, h, t, sz) ==
    [head |-> nx[h], size |-> sz - 1, tail |-> t]

\* What q_remove_head does to the queue's fields (h, t, sz): head becomes
\* what del_element returns, size drops, tail follows head at size <= 1.
remove_head(nx, h, t, sz) ==
    [head |-> nx[h], size |-> sz - 1, tail |-> IF 1 >= sz - 1 THEN nx[h] ELSE t]

\* q_remove_head without `if (0 == q_size(q)) return false`: on a NULL or
\* empty queue it reads through a NULL pointer and the process is killed.
q_remove_head_unguarded(hasBuf, bufsize, killed) ==
    /\ running
    /\ UNCHANGED eng
    /\ IF q = NULL \/ head = NULL THEN
           /\ lastOp' = Call("q_remove_head", FALSE, "killed", <<>>,
                             IF hasBuf THEN bufsize ELSE 0)
           /\ running' = FALSE
           /\ UNCHANGED <<q, head, tail, size, value, next, allocated>>
       ELSE
           LET out == IF hasBuf THEN copy_out(value[head], bufsize) ELSE <<>>
               cap == IF hasBuf THEN bufsize ELSE 0
           IN  IF killed /\ Len(out) > cap THEN
                   /\ lastOp' = Call("q_remove_head", FALSE, "killed", out, cap)
                   /\ running' = FALSE
                   /\ UNCHANGED <<q, head, tail, size, value, next, allocated>>
               ELSE
                   /\ LET r == remove_head(next, head, tail, size) IN
                      /\ head' = r.head
                      /\ size' = r.size
                      /\ tail' = r.tail
                   /\ value' = del_value(value, head)
                   /\ next' = del_next(next, head)
                   /\ allocated' = allocated \ {head}
                   /\ lastOp' = Call("q_remove_head", TRUE, "none", out, cap)
                   /\ UNCHANGED <<q, running>>

\* q_remove_head(q, sp, bufsize); sp is NULL (hasBuf = FALSE) or a buffer of
\* bufsize bytes.  A store past the buffer is undefined behaviour: the call
\* either goes on, or the process is killed before the element is removed.
q_remove_head(hasBuf, bufsize, killed) ==
    /\ running
    /\ UNCHANGED eng
    /\ IF 0 = q_size THEN
           /\ lastOp' = Call("q_remove_head", FALSE, "empty", <<>>,
                             IF hasBuf THEN bufsize ELSE 0)
           /\ UNCHANGED <<q, head, tail, size, value, next, allocated, running>>
       ELSE
           LET out == IF hasBuf THEN copy_out(value[head], bufsize) ELSE <<>>
               cap == IF hasBuf THEN bufsize ELSE 0
           IN  IF killed /\ Len(out) > cap THEN
                   /\ lastOp' = Call("q_remove_head", FALSE, "killed", out, cap)
                   /\ running' = FALSE
                   /\ UNCHANGED <<q, head, tail, size, value, next, allocated>>
               ELSE
                   /\ LET r == remove_head(next, head, tail, size) IN
                      /\ head' = r.head
                      /\ size' = r.size
                      /\ tail' = r.tail
                   /\ value' = del_value(value, head)
                   /\ next' = del_next(next, head)
                   /\ allocated' = allocated \ {head}
                   /\ lastOp' = Call("q_remove_head", TRUE, "none", out, cap)
                   /\ UNCHANGED <<q, running>>

\* q_reverse's loop without the `now->next = pre` that follows it.
RECURSIVE reverse_loop_skip_last(_, _, _, _)
reverse_loop_skip_last(nx, pre, now, nxt) ==
    IF nxt # NULL
    THEN reverse_loop_skip_last([nx EXCEPT ![now] = pre], now, nxt, nx[nxt])
    ELSE [next |-> nx, now |-> now]

\* q_reverse's loop: (pre, now, nxt) roll along the list, turning each link.
RECURSIVE reverse_loop(_, _, _, _)
reverse_loop(nx, pre, now, nxt) ==
    IF nxt # NULL THEN reverse_loop([nx EXCEPT ![now] = pre], now, nxt, nx[nxt])
    ELSE [next |-> [nx EXCEPT ![now] = pre], now |-> now]

\* q_reverse without `q->tail = q->head`.
reverse_keep_tail(qp, nx, h, t, sz) ==
    IF (IF qp # NULL THEN sz ELSE 0) <= 1 THEN [next |-> nx, head |-> h, tail |-> t]
    ELSE
        LET r == reverse_loop(nx, NULL, h, nx[h]) IN
        [next |-> r.next, head |-> r.now, tail |-> t]

\* q_reverse on a queue with fields (h, t, sz) and links nx.
reverse(qp, nx, h, t, sz) ==
    IF (IF qp # NULL THEN sz ELSE 0) <= 1 THEN [next |-> nx, head |-> h, tail |-> t]
    ELSE
        LET r == reverse_loop(nx, NULL, h, nx[h]) IN
        [next |-> r.next, head |-> r.now, tail |-> h]

\* q_reverse without `if (q_size(q) <= 1) return`: on a NULL or empty queue
\* it reads through a NULL pointer and the process is killed.
q_reverse_unguarded ==
    /\ running
    /\ IF q = NULL \/ head = NULL THEN
           /\ running' = FALSE
           /\ lastOp' = Call("q_reverse", FALSE, "killed", <<>>, 0)
           /\ UNCHANGED <<next, head, tail>>
       ELSE
           LET r == reverse_loop(next, NULL, head, next[head]) IN
           /\ next' = r.next
           /\ head' = r.now
           /\ tail' = head
           /\ lastOp' = Call("q_reverse", TRUE, "none", <<>>, 0)
           /\ UNCHANGED running
    /\ UNCHANGED <<q, size, value, allocated, eng>>

q_reverse ==
    /\ running
    /\ LET r == reverse(q, next, head, tail, size) IN
       /\ next' = r.next
       /\ head' = r.head
       /\ tail' = r.tail
    /\ lastOp' = Call("q_reverse", TRUE, "none", <<>>, 0)
    /\ UNCHANGED <<q, size, value, allocated, running, eng>>

\* cmp_elem with its arguments the wrong way round.
cmp_elem_swapped(val, a, b) == strcmp(val[b], val[a])

cmp_elem(val, a, b) == strcmp(val[a], val[b])

\* split's loop with probe moving one node at a time.
RECURSIVE split_loop_slow(_, _, _)
split_loop_slow(nx, probe, cut) ==
    IF probe # NULL /\ nx[probe] # NULL
    THEN split_loop_slow(nx, nx[probe], nx[cut])
    ELSE cut

\* split's loop: probe moves two nodes for each node cut moves.
RECURSIVE split_loop(_, _, _)
split_loop(nx, probe, cut) ==
    IF probe # NULL /\ nx[probe] # NULL
    THEN split_loop(nx, nx[nx[probe]], nx[cut])
    ELSE cut

split(nx, r) ==
    IF r.head = r.tail THEN [next |-> nx, r1 |-> r, r2 |-> NoRange]
    ELSE
        LET cut == split_loop(nx, nx[r.head], r.head)
            r1 == [head |-> r.head, tail |-> cut]
            r2 == [head |-> nx[cut], tail |-> r.tail]
        IN  [next |-> [nx EXCEPT ![r2.tail] = NULL, ![r1.tail] = NULL],
             r1 |-> r1, r2 |-> r2]

\* merge's loop with `<= 0` for `< 0`: ties are taken from r1.
RECURSIVE merge_loop_ties_r1(_, _, _, _, _)
merge_loop_ties_r1(val, nx, tl, h1, h2) ==
    IF h1 # NULL /\ h2 # NULL THEN
        LET first == cmp_elem(val, h1, h2) <= 0
            src == IF first THEN h1 ELSE h2
            nx1 == [nx EXCEPT ![tl] = src]
        IN  merge_loop_ties_r1(val, nx1, src,
                               IF first THEN nx1[h1] ELSE h1,
                               IF first THEN h2 ELSE nx1[h2])
    ELSE [next |-> nx, tail |-> tl, h1 |-> h1, h2 |-> h2]

\* merge's loop; nx also holds the dummy element LEAD, tl is merge's `tail`.
RECURSIVE merge_loop(_, _, _, _, _)
merge_loop(val, nx, tl, h1, h2) ==
    IF h1 # NULL /\ h2 # NULL THEN
        LET first == cmp_elem(val, h1, h2) < 0
            src == IF first THEN h1 ELSE h2
            nx1 == [nx EXCEPT ![tl] = src]
        IN  merge_loop(val, nx1, src,
                       IF first THEN nx1[h1] ELSE h1,
                       IF first THEN h2 ELSE nx1[h2])
    ELSE [next |-> nx, tail |-> tl, h1 |-> h1, h2 |-> h2]

\* merge without the splice of the range that is not used up.
merge_unspliced(val, nx, r1, r2) ==
    LET withLead == [n \in Nodes \cup {LEAD} |-> IF n = LEAD THEN NULL ELSE nx[n]]
        m == merge_loop(val, withLead, LEAD, r1.head, r2.head)
        nx1 == [m.next EXCEPT ![m.tail] = NULL]
        rtail == IF m.h1 = NULL THEN r2.tail ELSE r1.tail
    IN  [next |-> [n \in Nodes |-> nx1[n]],
         rr |-> [head |-> nx1[LEAD], tail |-> rtail]]

\* merge that takes rr->tail from the range that was used up.
merge_tail_swapped(val, nx, r1, r2) ==
    LET withLead == [n \in Nodes \cup {LEAD} |-> IF n = LEAD THEN NULL ELSE nx[n]]
        m == merge_loop(val, withLead, LEAD, r1.head, r2.head)
        nx1 == IF m.h1 = NULL
               THEN [m.next EXCEPT ![m.tail] = m.h2]
               ELSE [m.next EXCEPT ![m.tail] = m.h1]
        rtail == IF m.h1 = NULL THEN r1.tail ELSE r2.tail
    IN  [next |-> [n \in Nodes |-> nx1[n]],
         rr |-> [head |-> nx1[LEAD], tail |-> rtail]]

\* merge(r1, r2, rr): the loop, then the splice of the range not used up.
merge(val, nx, r1, r2) ==
    LET withLead == [n \in Nodes \cup {LEAD} |-> IF n = LEAD THEN NULL ELSE nx[n]]
        m == merge_loop(val, withLead, LEAD, r1.head, r2.head)
        nx1 == IF m.h1 = NULL
               THEN [m.next EXCEPT ![m.tail] = m.h2]
               ELSE [m.next EXCEPT ![m.tail] = m.h1]
        rtail == IF m.h1 = NULL THEN r2.tail ELSE r1.tail
    IN  [next |-> [n \in Nodes |-> nx1[n]],
         rr |-> [head |-> nx1[LEAD], tail |-> rtail]]

\* merge_sort whose two-node case swaps the nodes without comparing them.
RECURSIVE merge_sort_swap_always(_, _, _)
merge_sort_swap_always(val, nx, r) ==
    IF r.head = r.tail THEN [next |-> nx, r |-> r]
    ELSE IF nx[r.head] = r.tail THEN
        [next |-> [nx EXCEPT ![r.tail] = r.head, ![r.head] = NULL],
         r |-> [head |-> r.tail, tail |-> r.head]]
    ELSE
        LET s == split(nx, r)
            s1 == merge_sort_swap_always(val, s.next, s.r1)
            s2 == merge_sort_swap_always(val, s1.next, s.r2)
            m == merge(val, s2.next, s1.r, s2.r)
        IN  [next |-> m.next, r |-> m.rr]

\* merge_sort(r): the one- and two-node cases, else split, sort both, merge.
RECURSIVE merge_sort(_, _, _)
merge_sort(val, nx, r) ==
    IF r.head = r.tail THEN [next |-> nx, r |-> r]
    ELSE IF nx[r.head] = r.tail THEN
        IF cmp_elem(val, r.tail, r.head) < 0
        THEN [next |-> [nx EXCEPT ![r.tail] = r.head, ![r.head] = NULL],
              r |-> [head |-> r.tail, tail |-> r.head]]
        ELSE [next |-> nx, r |-> r]
    ELSE
        LET s == split(nx, r)
            s1 == merge_sort(val, s.next, s.r1)
            s2 == merge_sort(val, s1.next, s.r2)
            m == merge(val, s2.next, s1.r, s2.r)
        IN  [next |-> m.next, r |-> m.rr]

\* What a merge_sort call that ran out of stack frames leaves.
StackOut(nx, r) == [next |-> nx, r |-> r, ok |-> FALSE, calls |-> 0]

\* merge_sort without the one-node case.
RECURSIVE merge_sort_no_single(_, _, _, _)
merge_sort_no_single(val, nx, r, frames) ==
    IF frames = 0 THEN StackOut(nx, r)
    ELSE IF nx[r.head] = r.tail THEN
        IF cmp_elem(val, r.tail, r.head) < 0
        THEN [next |-> [nx EXCEPT ![r.tail] = r.head, ![r.head] = NULL],
              r |-> [head |-> r.tail, tail |-> r.head], ok |-> TRUE, calls |-> 1]
        ELSE [next |-> nx, r |-> r, ok |-> TRUE, calls |-> 1]
    ELSE
        LET s == split(nx, r)
            s1 == merge_sort_no_single(val, s.next, s.r1, frames - 1)
            s2 == merge_sort_no_single(val, s1.next, s.r2, frames - 1)
            m == merge(val, s2.next, s1.r, s2.r)
        IN  IF ~s1.ok THEN StackOut(s1.next, r)
            ELSE IF ~s2.ok THEN StackOut(s2.next, r)
            ELSE [next |-> m.next, r |-> m.rr, ok |-> TRUE,
                  calls |-> 1 + s1.calls + s2.calls]

\* merge_sort(r) run on a stack of `frames` frames: ok says whether the call
\* returned before the stack ran out, calls counts the calls of merge_sort.
RECURSIVE merge_sort_on_stack(_, _, _, _)
merge_sort_on_stack(val, nx, r, frames) ==
    IF frames = 0 THEN StackOut(nx, r)
    ELSE IF r.head = r.tail THEN [next |-> nx, r |-> r, ok |-> TRUE, calls |-> 1]
    ELSE IF nx[r.head] = r.tail THEN
        IF cmp_elem(val, r.tail, r.head) < 0
        THEN [next |-> [nx EXCEPT ![r.tail] = r.head, ![r.head] = NULL],
              r |-> [head |-> r.tail, tail |-> r.head], ok |-> TRUE, calls |-> 1]
        ELSE [next |-> nx, r |-> r, ok |-> TRUE, calls |-> 1]
    ELSE
        LET s == split(nx, r)
            s1 == merge_sort_on_stack(val, s.next, s.r1, frames - 1)
            s2 == merge_sort_on_stack(val, s1.next, s.r2, frames - 1)
            m == merge(val, s2.next, s1.r, s2.r)
        IN  IF ~s1.ok THEN StackOut(s1.next, r)
            ELSE IF ~s2.ok THEN StackOut(s2.next, r)
            ELSE [next |-> m.next, r |-> m.rr, ok |-> TRUE,
                  calls |-> 1 + s1.calls + s2.calls]

\* q_sort on a queue with fields (h, t, sz), values val and links nx.
sort(qp, val, nx, h, t, sz) ==
    IF (IF qp # NULL THEN sz ELSE 0) <= 1 THEN [next |-> nx, head |-> h, tail |-> t]
    ELSE
        LET s == merge_sort(val, nx, [head |-> h, tail |-> t]) IN
        [next |-> s.next, head |-> s.r.head, tail |-> s.r.tail]

q_sort ==
    /\ running
    /\ LET r == sort(q, value, next, head, tail, size) IN
       /\ next' = r.next
       /\ head' = r.head
       /\ tail' = r.tail
    /\ lastOp' = Call("q_sort", TRUE, "none", <<>>, 0)
    /\ UNCHANGED <<q, size, value, allocated, running, eng>>

\* q_free's loop stopping after the first element.
free_loop_head_only(val, nx, alloc, h) ==
    IF h # NULL
    THEN [value |-> del_value(val, h), next |-> del_next(nx, h),
          allocated |-> alloc \ {h}]
    ELSE [value |-> val, next |-> nx, allocated |-> alloc]

\* q_free's loop: q->head = del_element(q->head) until the list is empty.
RECURSIVE free_loop(_, _, _, _)
free_loop(val, nx, alloc, h) ==
    IF h # NULL
    THEN free_loop(del_value(val, h), del_next(nx, h), alloc \ {h}, nx[h])
    ELSE [value |-> val, next |-> nx, allocated |-> alloc]

\* q_free(q); the harness then drops its pointer.
q_free ==
    /\ running
    /\ IF q # NULL THEN
           LET f == free_loop(value, next, allocated, head) IN
           /\ value' = f.value
           /\ next' = f.next
           /\ allocated' = f.allocated
           /\ head' = NULL
           /\ tail' = NULL
           /\ size' = 0
           /\ q' = NULL
       ELSE UNCHANGED <<q, head, tail, size, value, next, allocated>>
    /\ lastOp' = Call("q_free", TRUE, "none", <<>>, 0)
    /\ UNCHANGED <<running, eng>>

\* q_new() when the harness holds no queue; ok is malloc's outcome.
q_new(ok) ==
    /\ running
    /\ q = NULL
    /\ q' = IF ok THEN QPTR ELSE NULL
    /\ lastOp' = Call("q_new", ok, IF ok THEN "none" ELSE "node", <<>>, 0)
    /\ UNCHANGED <<head, tail, size, value, next, allocated, running, eng>>

\* q_size(q), called by the harness.
q_size_call ==
    /\ running
    /\ lastOp' = CallNum("q_size", q_size)
    /\ UNCHANGED <<q, head, tail, size, value, next, allocated, running, eng>>

Next ==
    \/ \E ok \in BOOLEAN : q_new(ok)
    \/ q_free
    \/ \E s \in StrPtrs, fault \in Faults : q_insert_head(s, fault)
    \/ \E s \in StrPtrs, fault \in Faults : q_insert_tail(s, fault)
    \/ \E hasBuf \in BOOLEAN, bufsize \in 0..MaxBuf, killed \in BOOLEAN :
           q_remove_head(hasBuf, bufsize, killed)
    \/ q_reverse
    \/ q_sort
    \/ q_size_call

Spec == Init /\ [][Next]_vars

\* ------------------------------------------------- sorting whole queues
\* The queue after q_new and n successful q_insert_tail calls: nodes 1..n in
\* order, holding any strings.
InitSort ==
    /\ q \in {NULL, QPTR}
    /\ \E n \in 0..MaxNodes, val \in [Nodes -> Strings] :
           /\ q = NULL => n = 0
           /\ \A i \in Nodes : i > n => val[i] = <<>>
           /\ head = IF n = 0 THEN NULL ELSE 1
           /\ tail = IF n = 0 THEN NULL ELSE n
           /\ size = n
           /\ value = val
           /\ next = [i \in Nodes |-> IF i < n THEN i + 1 ELSE NULL]
           /\ allocated = 1..n
           /\ lastOp = IF n = 0
                       THEN Call("q_new", q # NULL,
                                 IF q # NULL THEN "none" ELSE "node", <<>>, 0)
                       ELSE CallArg("q_insert_tail", TRUE, "none", <<val[n]>>)
    /\ running = TRUE
    /\ eng = NoEngine

NextSort ==
    \/ q_sort
    \/ q_reverse
    \/ q_remove_head(FALSE, 0, FALSE)

SpecSort == InitSort /\ [][NextSort]_vars

\* ------------------------------------------------- merge inside q_sort
IsSorted(vs) == \A i \in 1..(Len(vs) - 1) : strcmp(vs[i], vs[i + 1]) <= 0

\* q_sort of a queue of n1 + n2 >= 3 nodes at the point where merge_sort has
\* split it and sorted both halves: r1 is the chain 1..n1, r2 the chain
\* n1+1..n1+n2, both NULL terminated and sorted; q->head and q->tail still
\* hold the bounds from before the sort.
InitMerge ==
    /\ q = QPTR
    /\ \E n1 \in 1..MaxNodes, n2 \in 1..MaxNodes, val \in [Nodes -> Strings] :
           /\ n1 + n2 <= MaxNodes
           /\ n1 + n2 >= 3
           /\ n1 - n2 \in {0, 1}
           /\ \A i \in Nodes : i > n1 + n2 => val[i] = <<>>
           /\ IsSorted([i \in 1..n1 |-> val[i]])
           /\ IsSorted([i \in 1..n2 |-> val[n1 + i]])
           /\ head = 1
           /\ tail = n1 + n2
           /\ size = n1 + n2
           /\ value = val
           /\ next = [i \in Nodes |-> IF i < n1 + n2 /\ i # n1 THEN i + 1 ELSE NULL]
           /\ allocated = 1..(n1 + n2)
           /\ eng = [r1 |-> [head |-> 1, tail |-> n1],
                     r2 |-> [head |-> n1 + 1, tail |-> n1 + n2],
                     rr |-> NoRange]
    /\ lastOp = Call("merge_sort", TRUE, "none", <<>>, 0)
    /\ running = TRUE

\* merge_sort's call merge(&r1, &r2, r).
merge_call ==
    /\ running
    /\ lastOp.op = "merge_sort"
    /\ LET m == merge(value, next, eng.r1, eng.r2) IN
       /\ next' = m.next
       /\ eng' = [eng EXCEPT !.rr = m.rr]
    /\ lastOp' = Call("merge", TRUE, "none", <<>>, 0)
    /\ UNCHANGED <<q, head, tail, size, value, allocated, running>>

NextMerge == merge_call

SpecMerge == InitMerge /\ [][NextMerge]_vars

\* ------------------------------------------------- ranges inside q_sort
\* All orders of the nodes in S, as sequences.
RECURSIVE Orders(_)
Orders(S) ==
    IF S = {} THEN {<<>>}
    ELSE UNION {{<<x>> \o p : p \in Orders(S \ {x})} : x \in S}

\* A NULL-terminated range r of n >= 1 nodes given to merge_sort: the nodes
\* 1..n linked in any order and holding any strings (the nodes are numbered
\* by rising value, which any heap is up to the choice of addresses).
InitRange ==
    /\ q = QPTR
    /\ \E n \in 1..MaxNodes :
         \E val \in [Nodes -> Strings] :
           /\ \A i \in Nodes : i > n => val[i] = <<>>
           /\ IsSorted([i \in 1..n |-> val[i]])
           /\ \E p \in Orders(1..n) :
                /\ head = p[1]
                /\ tail = p[n]
                /\ size = n
                /\ value = val
                /\ next = [i \in Nodes |->
                             IF i > n \/ i = p[n] THEN NULL
                             ELSE p[1 + CHOOSE k \in 1..n : p[k] = i]]
                /\ allocated = 1..n
                /\ eng = [r1 |-> NoRange, r2 |-> NoRange,
                          rr |-> [head |-> p[1], tail |-> p[n]]]
    /\ lastOp = Call("range", TRUE, "none", <<>>, 0)
    /\ running = TRUE

\* The call split(r, &r1, &r2).
split_call ==
    /\ running
    /\ lastOp.op = "range"
    /\ LET s == split(next, eng.rr) IN
       /\ next' = s.next
       /\ eng' = [eng EXCEPT !.r1 = s.r1, !.r2 = s.r2]
    /\ lastOp' = Call("split", TRUE, "none", <<>>, 0)
    /\ UNCHANGED <<q, head, tail, size, value, allocated, running>>

\* The call merge_sort(&range) on a stack of MaxFrames frames; the process
\* dies when the stack runs out.
merge_sort_call ==
    /\ running
    /\ lastOp.op = "range"
    /\ LET s == merge_sort_on_stack(value, next, eng.rr, MaxFrames) IN
       /\ next' = s.next
       /\ eng' = [eng EXCEPT !.rr = s.r]
       /\ running' = s.ok
       /\ lastOp' = [Call("merge_sort_ret", s.ok,
                          IF s.ok THEN "none" ELSE "killed", <<>>, 0)
                       EXCEPT !.num = s.calls]
    /\ UNCHANGED <<q, head, tail, size, value, allocated>>

NextRange ==
    \/ split_call
    \/ merge_sort_call

SpecRange == InitRange /\ [][NextRange]_vars

\* ------------------------------------------------------------ properties
\* The queue's nodes and values, in order, before and after a step.
Elems == Chain(next, head)
Elems_ == Chain(next', head')
Vals == Values(value, next, head)
Vals_ == Values(value', next', head')

\* The number of times v occurs in the sequence vs.
Count(vs, v) == Cardinality({i \in 1..Len(vs) : vs[i] = v})
SameBag(vs, ws) == \A v \in Strings : Count(vs, v) = Count(ws, v)

\* The position of node n in the sequence of nodes ns (0 if absent).
Pos(ns, n) == IF n \in Range(ns) THEN CHOOSE i \in 1..Len(ns) : ns[i] = n ELSE 0

Returned(op) == lastOp'.op = op

\* C1: after q_sort the values read from head are in non-decreasing strcmp
\* order, and each successful q_remove_head on a sorted queue takes out a
\* value that is <= every value left and leaves the queue sorted, so
\* successive removals come out in ascending order.
C1_SortAscending ==
    [][/\ Returned("q_sort") => IsSorted(Vals_)
       /\ (Returned("q_remove_head") /\ lastOp'.ret /\ IsSorted(Vals)) =>
              /\ IsSorted(Vals_)
              /\ \A i \in 1..Len(Vals_) : strcmp(Vals[1], Vals_[i]) <= 0]_vars

\* A sort of a full heap that had to move nodes and holds equal values.
C1_Witness ==
    /\ lastOp.op = "q_sort"
    /\ size = MaxNodes
    /\ Elems # [i \in 1..size |-> i]
    /\ \E i \in 1..(size - 1) : Vals[i] = Vals[i + 1]
    /\ \E i \in 1..(size - 1) : Vals[i] # Vals[i + 1]

\* C2: q_sort only rearranges: the same multiset of values, the same number
\* of reachable nodes (indeed the same nodes, each with the value it had),
\* and the same size field.
C2_SortPermutes ==
    [][Returned("q_sort") =>
          /\ SameBag(Vals_, Vals)
          /\ Len(Elems_) = Len(Elems)
          /\ Range(Elems_) = Range(Elems)
          /\ value' = value
          /\ size' = size]_vars

C2_Witness ==
    /\ lastOp.op = "q_sort"
    /\ size = MaxNodes
    /\ head # 1
    /\ \E i, j \in 1..size : i # j /\ Vals[i] = Vals[j]

\* C3: in every state, so after every call that succeeded or failed, size is
\* the number of elements reached by following next from head.
C3_SizeIsLength == q # NULL => size = Len(Elems)

\* A failed insertion at the tail of a queue that has been sorted or reversed
\* out of allocation order.
C3_Witness ==
    /\ lastOp.op = "q_insert_tail"
    /\ ~lastOp.ret
    /\ lastOp.err = "str"
    /\ size = 2
    /\ head = 2

\* C4: in a non-empty queue tail is the last node: size - 1 steps from head
\* reach it and its next is NULL; with one element head = tail.
C4_TailIsLast ==
    (q # NULL /\ size >= 1) =>
        /\ Len(Elems) >= size
        /\ Elems[size] = tail
        /\ next[tail] = NULL
        /\ (size = 1 => head = tail)

\* Right after a q_remove_head that brought a longer queue down to one element.
C4_Witness ==
    /\ lastOp.op = "q_remove_head"
    /\ lastOp.ret
    /\ size = 1
    /\ head = tail
    /\ head # 1

\* C5: size = 0, head = NULL and tail = NULL hold together or not at all.
C5_EmptyAgree ==
    q # NULL => /\ (size = 0 <=> head = NULL)
                /\ (head = NULL <=> tail = NULL)

\* Right after a q_remove_head that emptied the queue.
C5_Witness ==
    /\ lastOp.op = "q_remove_head"
    /\ lastOp.ret
    /\ size = 0
    /\ head = NULL
    /\ tail = NULL

\* C6: an insertion that returns false leaves q, head, tail, size, every
\* next link, every value and the set of allocated nodes as they were.
C6_FailedInsertNoChange ==
    [][((Returned("q_insert_head") \/ Returned("q_insert_tail")) /\ ~lastOp'.ret) =>
           UNCHANGED <<q, head, tail, size, next, value, allocated>>]_vars

\* q_insert_tail on a non-empty queue failing in strdup.
C6_Witness ==
    /\ lastOp.op = "q_insert_tail"
    /\ ~lastOp.ret
    /\ lastOp.err = "str"
    /\ lastOp.arg # NullStr
    /\ size >= 1
    /\ next[tail] = NULL

\* C7: a successful q_remove_head with a buffer of capacity cap >= 0 stores
\* only at indices 0..cap-1, and what it stores is the first
\* min(strlen(value), cap - 1) bytes of the removed value and a terminator.
C7_RemoveHeadWithinBuffer ==
    [][(Returned("q_remove_head") /\ lastOp'.ret /\ lastOp'.out # <<>>) =>
           LET out == lastOp'.out
               cap == lastOp'.cap
               v == Vals[1]
               k == IF Len(v) < cap - 1 THEN Len(v) ELSE cap - 1
           IN  /\ Len(out) <= cap
               /\ \A i \in 1..k : out[i] = v[i]
               /\ out[k + 1] = 0]_vars

\* C8 as stated: of two equal values, the node from r1 comes before the
\* node from r2 in the merged range.
C8_MergeTiesPreferR1 ==
    [][Returned("merge") =>
          \A a \in Range(Chain(next, eng.r1.head)), b \in Range(Chain(next, eng.r2.head)) :
              value[a] = value[b] =>
                  Pos(Chain(next', eng'.rr.head), a) < Pos(Chain(next', eng'.rr.head), b)]_vars

\* C8 as the code has it: merge takes from r1 only when its front is strictly
\* smaller, so of two equal values the node from r2 comes before the node
\* from r1 in the merged range.
C8_MergeTiesPreferR2 ==
    [][Returned("merge") =>
          \A a \in Range(Chain(next, eng.r1.head)), b \in Range(Chain(next, eng.r2.head)) :
              value[a] = value[b] =>
                  /\ Pos(Chain(next', eng'.rr.head), b) > 0
                  /\ Pos(Chain(next', eng'.rr.head), b) < Pos(Chain(next', eng'.rr.head), a)]_vars

\* A merge of ranges that share a value (r1 is the nodes up to r1.tail).
C8_Witness ==
    /\ lastOp.op = "merge"
    /\ \E a \in 1..eng.r1.tail, b \in eng.r2.head..eng.r2.tail : value[a] = value[b]
    /\ \E a \in 1..eng.r1.tail, b \in eng.r2.head..eng.r2.tail : value[a] # value[b]

\* C9: the values read from head behave as a sequence: a successful
\* q_insert_head(s) prepends s, a successful q_insert_tail(s) appends s (on
\* an empty queue that is the same as prepending), a successful
\* q_remove_head drops the first value, leaves the rest in order and copies
\* the dropped value into the buffer.
C9_RefinesSequence ==
    [][/\ (Returned("q_insert_head") /\ lastOp'.ret) =>
              Vals_ = <<lastOp'.arg[1]>> \o Vals
       /\ (Returned("q_insert_tail") /\ lastOp'.ret) =>
              /\ Vals_ = Vals \o <<lastOp'.arg[1]>>
              /\ Vals = <<>> => Vals_ = <<lastOp'.arg[1]>> \o Vals
       /\ (Returned("q_remove_head") /\ lastOp'.ret) =>
              /\ Vals # <<>>
              /\ Vals_ = Tail(Vals)
              /\ \A i \in 1..Len(lastOp'.out) :
                     (i <= Len(Vals[1]) /\ i < lastOp'.cap) => lastOp'.out[i] = Vals[1][i]]_vars

\* A removal, with a buffer, from a queue built by insertions at both ends.
C9_Witness ==
    /\ lastOp.op = "q_remove_head"
    /\ lastOp.ret
    /\ lastOp.cap = MaxBuf
    /\ size = 2
    /\ head = 1
    /\ tail = 3

\* C10: q_reverse undoes q_reverse: reversing the queue a q_reverse call
\* left gives back the links, head and tail from before the call, and the
\* call leaves size alone.
C10_ReverseInvolution ==
    [][Returned("q_reverse") =>
          /\ reverse(q', next', head', tail', size') =
                 [next |-> next, head |-> head, tail |-> tail]
          /\ size' = size]_vars

C10_Witness ==
    /\ lastOp.op = "q_reverse"
    /\ size = MaxNodes
    /\ head = MaxNodes
    /\ tail = 1
\* The queue q_sort would leave if it were called in the state after a step.
Resorted_ == sort(q', value', next', head', tail', size')

\* C11: q_sort is idempotent on values: sorting the queue a q_sort call left
\* gives the same sequence of values (and the same size).
C11_SortIdempotent ==
    [][Returned("q_sort") =>
          /\ Values(value', Resorted_.next, Resorted_.head) = Vals_
          /\ Len(Chain(Resorted_.next, Resorted_.head)) = size']_vars

\* A sorted full queue whose nodes a second q_sort would still move (equal
\* values change places), while the values stay as they are.
C11_Witness ==
    /\ lastOp.op = "q_sort"
    /\ size = MaxNodes
    /\ IsSorted(Vals)
    /\ sort(q, value, next, head, tail, size).head # head
    /\ \E i \in 1..(size - 1) : Vals[i] # Vals[i + 1]
\* C12: q_reverse and q_sort neither allocate nor free: the allocated nodes,
\* the nodes linked into the queue, every node's value, size and q are the
\* same after the call, and no next link of a node that is not allocated
\* is written; only links of live nodes, head and tail may differ.
C12_RelinkOnly ==
    [][(Returned("q_reverse") \/ Returned("q_sort")) =>
          /\ allocated' = allocated
          /\ Range(Elems_) = Range(Elems)
          /\ Len(Elems_) = Len(Elems)
          /\ value' = value
          /\ size' = size
          /\ q' = q
          /\ \A n \in Nodes \ allocated : next'[n] = next[n]]_vars

\* A q_sort that relinked a queue while the heap also had free nodes.
C12_Witness ==
    /\ lastOp.op = "q_sort"
    /\ size = MaxSize
    /\ allocated # Nodes
    /\ head # Min(allocated)
    /\ ~IsSorted([i \in 1..size |-> value[Min(allocated) + i - 1]])
QueueState == <<q, head, tail, size, value, next, allocated>>

\* C13: on a NULL or empty queue q_remove_head returns false, stores nothing
\* in the buffer and changes nothing, and q_size returns 0; with q NULL every
\* call returns (nothing is read through the NULL pointer), the insertions
\* and the removal return false, and only q_new changes anything.
C13_NullOrEmptyQueue ==
    [][/\ (Returned("q_remove_head") /\ (q = NULL \/ size = 0)) =>
              /\ ~lastOp'.ret
              /\ lastOp'.out = <<>>
              /\ running'
              /\ UNCHANGED QueueState
       /\ (Returned("q_size") /\ (q = NULL \/ head = NULL)) => lastOp'.num = 0
       /\ q = NULL =>
              /\ running'
              /\ UNCHANGED <<head, tail, size, value, next, allocated>>
              /\ (q' # NULL => Returned("q_new"))
              /\ Returned("q_insert_head") \/ Returned("q_insert_tail")
                     => ~lastOp'.ret]_vars

\* q_remove_head with a buffer on a queue that is NULL.
C13_Witness ==
    /\ lastOp.op = "q_remove_head"
    /\ ~lastOp.ret
    /\ lastOp.cap = MaxBuf
    /\ lastOp.out = <<>>
    /\ q = NULL
    /\ running
\* C14: q_reverse and q_sort on a queue of size <= 1 (NULL, empty or one
\* element) return leaving head, tail, size, every link, every value and the
\* allocated nodes as they were; a single element still has head = tail.
C14_SmallQueueNoOp ==
    [][((Returned("q_reverse") \/ Returned("q_sort")) /\ (q = NULL \/ size <= 1)) =>
          /\ UNCHANGED QueueState
          /\ running'
          /\ lastOp'.ret
          /\ (q' # NULL /\ size' = 1) => (head' = tail' /\ head' # NULL)]_vars

\* q_reverse on a queue of one element.
C14_Witness ==
    /\ lastOp.op = "q_reverse"
    /\ q # NULL
    /\ size = 1
    /\ head = tail
    /\ next[head] = NULL
\* C15: split of a NULL-terminated range of n >= 2 nodes gives r1 = its first
\* ceil(n/2) nodes and r2 = the other floor(n/2) nodes, in their order, both
\* non-empty and NULL terminated, with no link of another node changed; for
\* n = 1 it gives r1 = the range and r2 empty and writes nothing.
C15_SplitHalves ==
    [][Returned("split") =>
          LET c == Chain(next, eng.rr.head)
              n == Len(c)
              k == (n + 1) \div 2
              c1 == Chain(next', eng'.r1.head)
              c2 == Chain(next', eng'.r2.head)
          IN  IF n = 1 THEN
                  /\ eng'.r1 = eng.rr
                  /\ eng'.r2 = NoRange
                  /\ next' = next
              ELSE
                  /\ c1 = SubSeq(c, 1, k)
                  /\ c2 = SubSeq(c, k + 1, n)
                  /\ c1 # <<>> /\ c2 # <<>>
                  /\ Range(c1) \cap Range(c2) = {}
                  /\ eng'.r1 = [head |-> c[1], tail |-> c[k]]
                  /\ eng'.r2 = [head |-> c[k + 1], tail |-> c[n]]
                  /\ next'[eng'.r1.tail] = NULL
                  /\ next'[eng'.r2.tail] = NULL
                  /\ \A i \in Nodes \ {c[k]} : next'[i] = next[i]]_vars

\* A split of a full range whose nodes are not linked in address order.
C15_Witness ==
    /\ lastOp.op = "split"
    /\ size = MaxNodes
    /\ eng.r1.head = MaxNodes
    /\ Len(Chain(next, eng.r1.head)) = (MaxNodes + 1) \div 2
    /\ Len(Chain(next, eng.r2.head)) = MaxNodes \div 2
\* C16: merge of two non-empty, disjoint, NULL-terminated sorted ranges gives
\* one range holding exactly the nodes of both, sorted; rr.head is its first
\* node, rr.tail its last node, which is the tail of r1 or of r2 and has no
\* successor; the dummy element lead is not among the nodes.
C16_MergeClosedRange ==
    [][Returned("merge") =>
          LET c1 == Chain(next, eng.r1.head)
              c2 == Chain(next, eng.r2.head)
              c == Chain(next', eng'.rr.head)
          IN  /\ Len(c) = Len(c1) + Len(c2)
              /\ Range(c) = Range(c1) \cup Range(c2)
              /\ Range(c) \subseteq Nodes
              /\ DOMAIN next' = Nodes
              /\ IsSorted(Values(value', next', eng'.rr.head))
              /\ value' = value
              /\ eng'.rr.head = c[1]
              /\ eng'.rr.tail = c[Len(c)]
              /\ eng'.rr.tail \in {eng.r1.tail, eng.r2.tail}
              /\ next'[eng'.rr.tail] = NULL]_vars

\* A merge whose result starts in r2 and ends in r1.
C16_Witness ==
    /\ lastOp.op = "merge"
    /\ size = MaxNodes
    /\ eng.rr.head = eng.r2.head
    /\ eng.rr.tail = eng.r1.tail
    /\ Len(Chain(next, eng.rr.head)) = MaxNodes
\* C17: merge_sort returns on every NULL-terminated range of n >= 1 nodes,
\* with the result of the sort; a range of 1 or 2 nodes is handled by the
\* one call, and for n >= 3 split hands each recursive call a non-empty
\* NULL-terminated range of fewer than n nodes.
C17_MergeSortTerminates ==
    [][LET c == Chain(next, eng.rr.head)
           n == Len(c)
           c1 == Chain(next', eng'.r1.head)
           c2 == Chain(next', eng'.r2.head)
           ms == merge_sort(value, next, eng.rr)
       IN  /\ Returned("merge_sort_ret") =>
                 /\ lastOp'.ret
                 /\ running'
                 /\ next' = ms.next
                 /\ eng'.rr = ms.r
                 /\ lastOp'.num >= 1
                 /\ n <= 2 => lastOp'.num = 1
                 /\ n >= 3 => lastOp'.num > 1
           /\ (Returned("split") /\ n >= 3) =>
                 /\ Len(c1) >= 1 /\ Len(c1) < n
                 /\ Len(c2) >= 1 /\ Len(c2) < n
                 /\ c1[Len(c1)] = eng'.r1.tail
                 /\ c2[Len(c2)] = eng'.r2.tail]_vars

\* A sort of a full range that took more than one level of recursion.
C17_Witness ==
    /\ lastOp.op = "merge_sort_ret"
    /\ lastOp.ret
    /\ size = MaxNodes
    /\ lastOp.num >= MaxNodes
    /\ eng.rr.head # head
\* C18: q_reverse of a queue of n >= 2 nodes leaves the same nodes in the
\* opposite order: the new head is the old tail, the new tail is the old
\* head and has no successor, and every other node points to the node that
\* pointed to it.
C18_ReverseReverses ==
    [][(Returned("q_reverse") /\ q # NULL /\ size >= 2) =>
          LET n == Len(Elems) IN
          /\ Elems_ = [i \in 1..n |-> Elems[n + 1 - i]]
          /\ head' = tail
          /\ tail' = head
          /\ next'[tail'] = NULL
          /\ \A i \in 2..n : next'[Elems[i]] = Elems[i - 1]
          /\ value' = value
          /\ size' = size]_vars

\* A reversed queue of every node whose values are not all the same.
C18_Witness ==
    /\ lastOp.op = "q_reverse"
    /\ size = MaxNodes
    /\ Len(Elems) = MaxNodes
    /\ head = MaxNodes
    /\ tail = 1
    /\ Vals[1] # Vals[MaxNodes]
\* C19: after every call, failed allocations included, the nodes that are
\* allocated and not freed are exactly the nodes reached from q->head, each
\* once, so no node leaks and no freed node is reached from head or tail;
\* after q_free no node of the queue is left allocated.
C19_Ownership ==
    /\ q # NULL =>
          /\ allocated = Range(Elems)
          /\ Len(Elems) = Cardinality(allocated)
          /\ head \in allocated \cup {NULL}
          /\ tail \in allocated \cup {NULL}
          /\ \A n \in allocated : next[n] \in allocated \cup {NULL}
    /\ q = NULL => allocated = {}

\* A q_insert_tail whose strdup failed, on a queue that has seen a removal.
C19_Witness ==
    /\ lastOp.op = "q_insert_tail"
    /\ ~lastOp.ret
    /\ lastOp.err = "str"
    /\ size = MaxSize - 1
    /\ allocated # {}
    /\ Min(allocated) > 1
====
